---- MODULE Spec2Model ----
(***************************************************************************)
(* Invoice Data Extractor (src/app.py): the reply normalizer              *)
(* clean_json_output, the reshaping helpers and the extract flow that     *)
(* writes the four session slots.                                         *)
(*                                                                         *)
(* A text is a sequence of one-character strings.  A JSON value is a      *)
(* record [tag, b, n, s, keys, items]; a dict keeps its keys in insertion *)
(* order, as Python's dict does.                                          *)
(*                                                                         *)
(* The model takes the imports and the key check of lines 1-25 to have    *)
(* succeeded; the API call of line 229 returns any reply or raises.  The  *)
(* display and download steps of lines 266-287 write no session slot and  *)
(* are taken not to raise.                                                *)
(***************************************************************************)
EXTENDS Integers, Sequences, FiniteSets, TLC

\* ------------------------------------------------------------ characters
NL == "\n"
DQ == "\""
\* The backquote character (a backquote cannot be written in a TLA+ string).
BT == "BACKQUOTE"

\* Whitespace of the alphabet.  str.strip(), the regex class \s and the JSON
\* scanner agree on these two characters.
WS == {" ", NL}

Digits == {"0", "1", "2", "3", "4", "5", "6", "7", "8", "9"}

Letters ==
    {"a", "b", "c", "d", "e", "f", "g", "h", "i", "j", "k", "l", "m", "n",
     "o", "p", "q", "r", "s", "t", "u", "v", "w", "x", "y", "z",
     "A", "B", "C", "D", "E", "F", "G", "H", "I", "J", "K", "L", "M", "N",
     "O", "P", "Q", "R", "S", "T", "U", "V", "W", "X", "Y", "Z"}

\* A faulty class for the key repair, without the underscore: [A-Za-z0-9].
IdentCharsNoUnderscore == Letters \cup Digits

\* The regex class [A-Za-z0-9_] of the key repair.
IdentChars == Letters \cup Digits \cup {"_"}

Fence == <<BT, BT, BT>>
JsonTag == <<"j", "s", "o", "n">>

\* ------------------------------------------------------------ JSON values
JNull == [tag |-> "null", b |-> FALSE, n |-> 0, s |-> <<>>, keys |-> <<>>, items |-> <<>>]
JBool(x) == [tag |-> "bool", b |-> x, n |-> 0, s |-> <<>>, keys |-> <<>>, items |-> <<>>]
JNum(x) == [tag |-> "num", b |-> FALSE, n |-> x, s |-> <<>>, keys |-> <<>>, items |-> <<>>]
JStr(x) == [tag |-> "str", b |-> FALSE, n |-> 0, s |-> x, keys |-> <<>>, items |-> <<>>]
JList(xs) == [tag |-> "list", b |-> FALSE, n |-> 0, s |-> <<>>, keys |-> <<>>, items |-> xs]
JDict(ks, vs) == [tag |-> "dict", b |-> FALSE, n |-> 0, s |-> <<>>, keys |-> ks, items |-> vs]

IsDict(v) == v.tag = "dict"
IsList(v) == v.tag = "list"
IsScalar(v) == v.tag \in {"null", "bool", "num", "str"}

\* Index of key k in dict d, 0 when absent (k in d).
KeyIndex(d, k) ==
    IF \E i \in 1..Len(d.keys) : d.keys[i] = k
    THEN CHOOSE i \in 1..Len(d.keys) : d.keys[i] = k
    ELSE 0

HasKey(d, k) == KeyIndex(d, k) # 0

\* d[k] for a key that is present.
DictGet(d, k) == d.items[KeyIndex(d, k)]

\* d[k] = v: a present key keeps its place and takes the new value, a new
\* key is appended.
DictPut(d, k, v) ==
    IF HasKey(d, k)
    THEN JDict(d.keys, [d.items EXCEPT ![KeyIndex(d, k)] = v])
    ELSE JDict(Append(d.keys, k), Append(d.items, v))

\* ------------------------------------------------------------ text helpers
\* The sequence f with its elements computed (TLC keeps [i \in 1..n |-> e]
\* unevaluated until it is used).
Tuple(f) == SubSeq(f, 1, Len(f))

\* Whether text t occurs in s at index i.
HasAt(s, i, t) ==
    /\ i >= 1
    /\ i + Len(t) - 1 <= Len(s)
    /\ \A j \in 1..Len(t) : s[i + j - 1] = t[j]

\* First index >= i whose character is not in set cs (Len(s) + 1 if none).
RECURSIVE SkipWhile(_, _, _)
SkipWhile(s, i, cs) ==
    IF i <= Len(s) /\ s[i] \in cs THEN SkipWhile(s, i + 1, cs) ELSE i

\* Last index <= i whose character is not whitespace (0 if none).
RECURSIVE LastNonWs(_, _)
LastNonWs(s, i) ==
    IF i >= 1 /\ s[i] \in WS THEN LastNonWs(s, i - 1) ELSE i

\* str.strip()
Strip(s) == SubSeq(s, SkipWhile(s, 1, WS), LastNonWs(s, Len(s)))

\* The least element of a non-empty set of integers.
Least(S) == CHOOSE x \in S : \A y \in S : x <= y

\* Whether the pattern ^``` of line 58 matches at index i: the start of the
\* text or of a line (re.MULTILINE), followed by the fence.
OpenFenceAt(s, i) == (i = 1 \/ s[i - 1] = NL) /\ HasAt(s, i, Fence)

\* re.sub(r"^```(?:json)?", "", s, flags=re.MULTILINE) from index i on: the
\* fence, with the tag when it follows, is dropped at the start of the text
\* and at the start of every line.  Each step copies the text up to the next
\* match and skips the match.
RECURSIVE StripOpenFence(_, _)
StripOpenFence(s, i) ==
    LET ms == {j \in i..Len(s) : OpenFenceAt(s, j)}
        m == Least(ms)
    IN  IF ms = {} THEN SubSeq(s, i, Len(s))
        ELSE SubSeq(s, i, m - 1)
                 \o StripOpenFence(s, IF HasAt(s, m + 3, JsonTag) THEN m + 7 ELSE m + 3)

\* re.sub(r"```$", "", s) on a stripped text: $ is the end of the text (a
\* stripped text has no final newline for $ to stand before).
StripCloseFence(s) ==
    IF HasAt(s, Len(s) - 2, Fence) THEN SubSeq(s, 1, Len(s) - 3) ELSE s

\* str.replace("\n", " ")
NewlinesToSpaces(s) == Tuple([i \in 1..Len(s) |-> IF s[i] = NL THEN " " ELSE s[i]])

\* A faulty cleaning that leaves the code fences in the text.
CleanTextKeepFences(raw) == Strip(NewlinesToSpaces(Strip(raw)))

\* Lines 58-60: the cleaned text handed to the parser.
CleanText(raw) ==
    Strip(NewlinesToSpaces(StripCloseFence(Strip(StripOpenFence(Strip(raw), 1)))))

\* Whether the pattern ([{,])\s*([A-Za-z0-9_]+): of line 65 matches at index
\* i: a brace or comma, any whitespace, one or more identifier characters
\* and a colon.
BareKeyAt(s, i) ==
    LET w == SkipWhile(s, i + 1, WS)
        e == SkipWhile(s, w, IdentChars)
    IN  s[i] \in {"{", ","} /\ e > w /\ e <= Len(s) /\ s[e] = ":"

\* re.sub(r"([{,])\s*([A-Za-z0-9_]+):", r'\1 "\2":', s) from index i on: one
\* left-to-right pass over non-overlapping matches.  Each step copies the
\* text up to the next match and writes the match with its identifier
\* quoted.
RECURSIVE QuoteBareKeys(_, _)
QuoteBareKeys(s, i) ==
    LET ms == {j \in i..Len(s) : BareKeyAt(s, j)}
        m == Least(ms)
        w == SkipWhile(s, m + 1, WS)
        e == SkipWhile(s, w, IdentChars)
    IN  IF ms = {} THEN SubSeq(s, i, Len(s))
        ELSE SubSeq(s, i, m - 1) \o <<s[m], " ", DQ>> \o SubSeq(s, w, e - 1)
                 \o <<DQ, ":">> \o QuoteBareKeys(s, e + 1)

\* ------------------------------------------------------------ json.loads
\* The strict parser of Python's json module on the alphabet above: objects,
\* arrays, strings, unsigned integers and the literals null, true, false.
\* The replies of the model hold no backslash, sign, fraction or exponent.
\* A result is [ok, val, end, msg, pos]: end is the index of the next
\* character to read, pos the 0-based offset a JSONDecodeError reports.
\* The messages of JSONDecodeError.
MsgExpectingValue ==
    <<"E", "x", "p", "e", "c", "t", "i", "n", "g", " ", "v", "a", "l", "u",
      "e">>
MsgExpectingName ==
    <<"E", "x", "p", "e", "c", "t", "i", "n", "g", " ", "p", "r", "o", "p",
      "e", "r", "t", "y", " ", "n", "a", "m", "e", " ", "e", "n", "c", "l",
      "o", "s", "e", "d", " ", "i", "n", " ", "d", "o", "u", "b", "l", "e",
      " ", "q", "u", "o", "t", "e", "s">>
MsgExpectingColon ==
    <<"E", "x", "p", "e", "c", "t", "i", "n", "g", " ", "'", ":", "'", " ",
      "d", "e", "l", "i", "m", "i", "t", "e", "r">>
MsgExpectingComma ==
    <<"E", "x", "p", "e", "c", "t", "i", "n", "g", " ", "'", ",", "'", " ",
      "d", "e", "l", "i", "m", "i", "t", "e", "r">>
MsgExtraData == <<"E", "x", "t", "r", "a", " ", "d", "a", "t", "a">>
MsgUnterminated ==
    <<"U", "n", "t", "e", "r", "m", "i", "n", "a", "t", "e", "d", " ", "s",
      "t", "r", "i", "n", "g", " ", "s", "t", "a", "r", "t", "i", "n", "g",
      " ", "a", "t">>

Ok(v, e) == [ok |-> TRUE, val |-> v, end |-> e, msg |-> <<>>, pos |-> 0]
Fail(m, p) == [ok |-> FALSE, val |-> JNull, end |-> 0, msg |-> m, pos |-> p]

DigitValue(c) ==
    CASE c = "0" -> 0 [] c = "1" -> 1 [] c = "2" -> 2 [] c = "3" -> 3
      [] c = "4" -> 4 [] c = "5" -> 5 [] c = "6" -> 6 [] c = "7" -> 7
      [] c = "8" -> 8 [] c = "9" -> 9

RECURSIVE DigitsValue(_)
DigitsValue(ds) ==
    IF ds = <<>> THEN 0
    ELSE 10 * DigitsValue(SubSeq(ds, 1, Len(ds) - 1)) + DigitValue(ds[Len(ds)])

\* First index >= i holding a double quote (Len(s) + 1 if none).
RECURSIVE FindQuote(_, _)
FindQuote(s, i) ==
    IF i <= Len(s) /\ s[i] # DQ THEN FindQuote(s, i + 1) ELSE i

\* scanstring, from the opening quote at index i.
ScanString(s, i) ==
    LET c == FindQuote(s, i + 1)
    IN  IF c > Len(s)
        THEN Fail(MsgUnterminated, i - 1)
        ELSE Ok(JStr(SubSeq(s, i + 1, c - 1)), c + 1)

\* The number pattern (0|[1-9][0-9]*) at index i.
ScanNumber(s, i) ==
    IF s[i] = "0" THEN Ok(JNum(0), i + 1)
    ELSE LET e == SkipWhile(s, i, Digits)
         IN  Ok(JNum(DigitsValue(SubSeq(s, i, e - 1))), e)

RECURSIVE ScanOnce(_, _)
RECURSIVE ParseMembers(_, _, _)
RECURSIVE ParseElements(_, _, _)

\* JSONObject, from the index after the opening brace.
ParseObject(s, i) ==
    LET j == SkipWhile(s, i, WS)
    IN  IF j <= Len(s) /\ s[j] = "}" THEN Ok(JDict(<<>>, <<>>), j + 1)
        ELSE IF j > Len(s) \/ s[j] # DQ
        THEN Fail(MsgExpectingName, j - 1)
        ELSE ParseMembers(s, j, JDict(<<>>, <<>>))

\* The member loop of JSONObject, from the opening quote of a key at index
\* j, with the members read so far in acc.
ParseMembers(s, j, acc) ==
    LET k == ScanString(s, j)
        c == SkipWhile(s, k.end, WS)
        v == ScanOnce(s, SkipWhile(s, c + 1, WS))
        d == SkipWhile(s, v.end, WS)
        n == SkipWhile(s, d + 1, WS)
    IN  IF ~k.ok THEN k
        ELSE IF c > Len(s) \/ s[c] # ":"
        THEN Fail(MsgExpectingColon, c - 1)
        ELSE IF ~v.ok THEN v
        ELSE IF d <= Len(s) /\ s[d] = "}"
        THEN Ok(DictPut(acc, k.val.s, v.val), d + 1)
        ELSE IF d > Len(s) \/ s[d] # ","
        THEN Fail(MsgExpectingComma, d - 1)
        ELSE IF n > Len(s) \/ s[n] # DQ
        THEN Fail(MsgExpectingName, n - 1)
        ELSE ParseMembers(s, n, DictPut(acc, k.val.s, v.val))

\* JSONArray, from the index after the opening bracket.
ParseArray(s, i) ==
    LET j == SkipWhile(s, i, WS)
    IN  IF j <= Len(s) /\ s[j] = "]" THEN Ok(JList(<<>>), j + 1)
        ELSE ParseElements(s, j, <<>>)

\* The element loop of JSONArray, from the start of an element at index j.
ParseElements(s, j, acc) ==
    LET v == ScanOnce(s, j)
        d == SkipWhile(s, v.end, WS)
    IN  IF ~v.ok THEN v
        ELSE IF d <= Len(s) /\ s[d] = "]"
        THEN Ok(JList(Append(acc, v.val)), d + 1)
        ELSE IF d > Len(s) \/ s[d] # ","
        THEN Fail(MsgExpectingComma, d - 1)
        ELSE ParseElements(s, SkipWhile(s, d + 1, WS), Append(acc, v.val))

\* scan_once at index i.
ScanOnce(s, i) ==
    IF i > Len(s) THEN Fail(MsgExpectingValue, i - 1)
    ELSE IF s[i] = DQ THEN ScanString(s, i)
    ELSE IF s[i] = "{" THEN ParseObject(s, i + 1)
    ELSE IF s[i] = "[" THEN ParseArray(s, i + 1)
    ELSE IF HasAt(s, i, <<"n", "u", "l", "l">>) THEN Ok(JNull, i + 4)
    ELSE IF HasAt(s, i, <<"t", "r", "u", "e">>) THEN Ok(JBool(TRUE), i + 4)
    ELSE IF HasAt(s, i, <<"f", "a", "l", "s", "e">>) THEN Ok(JBool(FALSE), i + 5)
    ELSE IF s[i] \in Digits THEN ScanNumber(s, i)
    ELSE Fail(MsgExpectingValue, i - 1)

\* json.loads(s): one value, whitespace around it, nothing after it.
JsonLoads(s) ==
    LET r == ScanOnce(s, SkipWhile(s, 1, WS))
        e == SkipWhile(s, r.end, WS)
    IN  IF ~r.ok THEN r
        ELSE IF e <= Len(s) THEN Fail(MsgExtraData, e - 1)
        ELSE r

\* The decimal digits of a natural number, str(n).
RECURSIVE DecimalText(_)
DecimalText(n) ==
    LET d == <<"0", "1", "2", "3", "4", "5", "6", "7", "8", "9">>[(n % 10) + 1]
    IN  IF n < 10 THEN <<d>> ELSE Append(DecimalText(n \div 10), d)

ParseFailedPrefix ==
    <<"J", "S", "O", "N", " ", "p", "a", "r", "s", "e", " ", "f", "a", "i",
      "l", "e", "d", ":", " ">>
LineOneColumn ==
    <<":", " ", "l", "i", "n", "e", " ", "1", " ", "c", "o", "l", "u", "m",
      "n", " ">>
CharOpen == <<" ", "(", "c", "h", "a", "r", " ">>

\* "JSON parse failed: " + str(e) (line 68) for the JSONDecodeError r on a
\* text without newlines: "<msg>: line 1 column <pos + 1> (char <pos>)".
ParseFailedMessage(r) ==
    ParseFailedPrefix \o r.msg \o LineOneColumn \o DecimalText(r.pos + 1)
        \o CharOpen \o DecimalText(r.pos) \o <<")">>

ErrorKey == <<"e", "r", "r", "o", "r">>
RawKey == <<"r", "a", "w">>
NoOutput == <<"n", "o", " ", "o", "u", "t", "p", "u", "t">>

\* ------------------------------------------------------------ the normalizer
\* A reply is [none, text]: none is Python's None, the content of a reply
\* without text.
NoneReply == [none |-> TRUE, text |-> <<>>]
TextReply(t) == [none |-> FALSE, text |-> t]

\* A faulty normalizer whose test of line 56 is "raw_text is None": an empty
\* text goes on to the parser.
clean_json_output_none_only(raw_text) ==
    IF raw_text.none
    THEN [val |-> JDict(<<ErrorKey>>, <<JStr(NoOutput)>>), loads |-> 0,
          repaired |-> FALSE]
    ELSE LET text == CleanText(raw_text.text)
             r1 == JsonLoads(text)
             r2 == JsonLoads(QuoteBareKeys(text, 1))
         IN  IF r1.ok THEN [val |-> r1.val, loads |-> 1, repaired |-> FALSE]
             ELSE IF r2.ok THEN [val |-> r2.val, loads |-> 2, repaired |-> TRUE]
             ELSE [val |-> JDict(<<ErrorKey, RawKey>>,
                                 <<JStr(ParseFailedMessage(r2)), JStr(text)>>),
                   loads |-> 2, repaired |-> TRUE]

\* clean_json_output (lines 55-68).  The result is [val, loads, repaired]:
\* the returned value, the number of json.loads calls made, and whether the
\* key repair of line 65 ran.
clean_json_output(raw_text) ==
    IF raw_text.none \/ raw_text.text = <<>>
    THEN [val |-> JDict(<<ErrorKey>>, <<JStr(NoOutput)>>), loads |-> 0,
          repaired |-> FALSE]
    ELSE LET text == CleanText(raw_text.text)
             r1 == JsonLoads(text)
             text_fixed == QuoteBareKeys(text, 1)
             r2 == JsonLoads(text_fixed)
         IN  IF r1.ok THEN [val |-> r1.val, loads |-> 1, repaired |-> FALSE]
             ELSE IF r2.ok THEN [val |-> r2.val, loads |-> 2, repaired |-> TRUE]
             ELSE [val |-> JDict(<<ErrorKey, RawKey>>,
                                 <<JStr(ParseFailedMessage(r2)), JStr(text)>>),
                   loads |-> 2, repaired |-> TRUE]

\* ------------------------------------------------------------ data frames
\* A pandas DataFrame is [columns, rows]: the column names in order and one
\* sequence of cells per row.  A cell is a JSON value or NaN, the filler of
\* a column a record does not have.
JNaN == [tag |-> "nan", b |-> FALSE, n |-> 0, s |-> <<>>, keys |-> <<>>, items |-> <<>>]
Frame(cols, rows) == [columns |-> cols, rows |-> rows]

\* pd.DataFrame()
EmptyFrame == Frame(<<>>, <<>>)

Range(f) == {f[i] : i \in DOMAIN f}

\* cols followed by the names of more that cols lacks, in order.
RECURSIVE UnionColumns(_, _)
UnionColumns(cols, more) ==
    IF more = <<>> THEN cols
    ELSE UnionColumns(IF Head(more) \in Range(cols) THEN cols
                      ELSE Append(cols, Head(more)),
                      Tail(more))

\* The keys of the records from index i on, in order of first appearance.
RECURSIVE RecordColumns(_, _, _)
RecordColumns(recs, i, cols) ==
    IF i > Len(recs) THEN cols
    ELSE RecordColumns(recs, i + 1, UnionColumns(cols, recs[i].keys))

\* pd.DataFrame(val) for a list of dicts: one row per dict, one column per
\* key, NaN where a dict lacks the key.
FrameOfRecords(recs) ==
    LET cols == RecordColumns(recs, 1, <<>>)
    IN  Frame(cols,
              Tuple([i \in 1..Len(recs) |->
                  Tuple([c \in 1..Len(cols) |->
                      IF HasKey(recs[i], cols[c]) THEN DictGet(recs[i], cols[c])
                      ELSE JNaN])]))

\* The rows of frame f laid out on the columns cols.
Reindex(f, cols) ==
    Tuple([i \in 1..Len(f.rows) |->
        Tuple([c \in 1..Len(cols) |->
            IF \E k \in 1..Len(f.columns) : f.columns[k] = cols[c]
            THEN f.rows[i][CHOOSE k \in 1..Len(f.columns) : f.columns[k] = cols[c]]
            ELSE JNaN])])

\* pd.concat([a, b], ignore_index=True)
Concat(a, b) ==
    LET cols == UnionColumns(a.columns, b.columns)
    IN  Frame(cols, Reindex(a, cols) \o Reindex(b, cols))

\* ------------------------------------------------------------ reshaping
\* dict.update(other) from index i of other on.
RECURSIVE DictUpdate(_, _, _)
DictUpdate(d, other, i) ==
    IF i > Len(other.keys) THEN d
    ELSE DictUpdate(DictPut(d, other.keys[i], other.items[i]), other, i + 1)

\* flatten_dict (lines 70-78), sep = "_": the loop from the i-th item of d
\* on, with the flattened items so far in acc.
RECURSIVE FlattenFrom(_, _, _, _)
FlattenFrom(d, i, parent_key, acc) ==
    IF i > Len(d.keys) THEN acc
    ELSE LET k == d.keys[i]
             v == d.items[i]
             new_key == IF parent_key # <<>> THEN parent_key \o <<"_">> \o k ELSE k
         IN  IF IsDict(v)
             THEN FlattenFrom(d, i + 1, parent_key,
                              DictUpdate(acc, FlattenFrom(v, 1, new_key, JDict(<<>>, <<>>)), 1))
             ELSE FlattenFrom(d, i + 1, parent_key, DictPut(acc, new_key, v))

flatten_dict(d, parent_key) == FlattenFrom(d, 1, parent_key, JDict(<<>>, <<>>))

FieldNameColumn == <<"F", "i", "e", "l", "d", " ", "N", "a", "m", "e">>
ValueColumn == <<"V", "a", "l", "u", "e">>

\* The loop of separate_summary_and_items (lines 83-89) from the i-th item
\* of parsed_data on.
RECURSIVE SeparateFrom(_, _, _, _)
SeparateFrom(d, i, flat_data, items) ==
    IF i > Len(d.keys) THEN [flat_data |-> flat_data, items_df |-> items]
    ELSE LET key == d.keys[i]
             val == d.items[i]
         IN  IF IsList(val) /\ \A j \in 1..Len(val.items) : IsDict(val.items[j])
             THEN SeparateFrom(d, i + 1, flat_data,
                               Concat(items, FrameOfRecords(val.items)))
             ELSE IF IsDict(val)
             THEN SeparateFrom(d, i + 1,
                               DictUpdate(flat_data, flatten_dict(val, key), 1),
                               items)
             ELSE SeparateFrom(d, i + 1, DictPut(flat_data, key, val), items)

\* separate_summary_and_items (lines 80-91).  raised: parsed_data.items()
\* raises AttributeError on a value that is no dict.
separate_summary_and_items(parsed) ==
    IF ~IsDict(parsed)
    THEN [raised |-> TRUE, df_summary |-> EmptyFrame, items_df |-> EmptyFrame]
    ELSE LET r == SeparateFrom(parsed, 1, JDict(<<>>, <<>>), EmptyFrame)
         IN  [raised |-> FALSE,
              df_summary |->
                  Frame(<<FieldNameColumn, ValueColumn>>,
                        Tuple([i \in 1..Len(r.flat_data.keys) |->
                            <<JStr(r.flat_data.keys[i]), r.flat_data.items[i]>>])),
              items_df |-> r.items_df]

NotFound == <<"N", "o", "t", " ", "F", "o", "u", "n", "d">>

\* str.split("."): the pieces of path between its dots.
RECURSIVE SplitDots(_)
SplitDots(path) ==
    LET ds == {i \in 1..Len(path) : path[i] = "."}
        d == Least(ds)
    IN  IF ds = {} THEN <<path>>
        ELSE <<SubSeq(path, 1, d - 1)>> \o SplitDots(SubSeq(path, d + 1, Len(path)))

\* The loop of deep_get (lines 112-117) over the keys from index i on.
RECURSIVE DeepGetFrom(_, _, _, _)
DeepGetFrom(data, keys, i, default) ==
    IF i > Len(keys) THEN data
    ELSE IF IsDict(data) /\ HasKey(data, keys[i])
    THEN DeepGetFrom(DictGet(data, keys[i]), keys, i + 1, default)
    ELSE default

\* deep_get (lines 110-117) with its default "Not Found".
deep_get(data, path) == DeepGetFrom(data, SplitDots(path), 1, JStr(NotFound))

\* dict.get(key, default)
Get(d, key, default) == IF HasKey(d, key) THEN DictGet(d, key) ELSE default

SitesKey == <<"s", "i", "t", "e", "s">>
AlternativeDateKey ==
    <<"a", "l", "t", "e", "r", "n", "a", "t", "i", "v", "e", "_", "d", "a",
      "t", "e">>
DateKey == <<"d", "a", "t", "e">>
AddressKey == <<"a", "d", "d", "r", "e", "s", "s">>
VendorPath ==
    <<"b", "i", "l", "l", "i", "n", "g", "_", "d", "e", "t", "a", "i", "l",
      "s", ".", "p", "a", "y", "a", "b", "l", "e", "_", "t", "o">>
InvNoPath ==
    <<"i", "n", "v", "o", "i", "c", "e", ".", "i", "n", "v", "o", "i", "c",
      "e", "_", "n", "u", "m", "b", "e", "r">>
AmountPath ==
    <<"i", "n", "v", "o", "i", "c", "e", ".", "a", "m", "o", "u", "n", "t">>
DuePath ==
    <<"c", "o", "m", "p", "u", "t", "e", "d", "_", "d", "u", "e", "_", "d",
      "a", "t", "e">>

SNoColumn == <<"S", ".", " ", "N", "o">>
VendorNameColumn == <<"V", "e", "n", "d", "o", "r", " ", "N", "a", "m", "e">>
AddressColumn == <<"A", "d", "d", "r", "e", "s", "s">>
InvNoColumn == <<"I", "n", "v", " ", "#">>
MemoColumn == <<"M", "e", "m", "o", " ", "#">>
InvDateColumn == <<"I", "n", "v", " ", "D", "a", "t", "e">>
DueDateColumn == <<"D", "u", "e", " ", "D", "a", "t", "e">>
InvoiceTotalColumn ==
    <<"I", "n", "v", "o", "i", "c", "e", " ", "T", "o", "t", "a", "l">>

CustomColumns ==
    <<SNoColumn, VendorNameColumn, AddressColumn, InvNoColumn, MemoColumn,
      InvDateColumn, DueDateColumn, InvoiceTotalColumn>>

\* What enumerate(sites, 1) iterates over (line 251): the elements of a
\* list, the keys of a dict, the characters of a string.
Iterable(v) == v.tag \in {"list", "dict", "str"}

Elements(v) ==
    IF IsList(v) THEN v.items
    ELSE IF IsDict(v) THEN Tuple([i \in 1..Len(v.keys) |-> JStr(v.keys[i])])
    ELSE Tuple([i \in 1..Len(v.s) |-> JStr(<<v.s[i]>>)])

\* Line 252.
InvDate(s) ==
    LET alt == Get(s, AlternativeDateKey, JNull)
    IN  IF alt \notin {JStr(NotFound), JNull} THEN alt
        ELSE Get(s, DateKey, JStr(NotFound))

\* A faulty record that numbers the sites from 0, as enumerate(sites) does.
CustomRecordFromZero(i, s, vendor, inv_no, amount, due) ==
    <<JNum(i - 1), vendor, Get(s, AddressKey, JStr(NotFound)), inv_no,
      JStr(NotFound), InvDate(s), due, amount>>

\* The record of lines 253-262 for the i-th site s.
CustomRecord(i, s, vendor, inv_no, amount, due) ==
    <<JNum(i), vendor, Get(s, AddressKey, JStr(NotFound)), inv_no,
      JStr(NotFound), InvDate(s), due, amount>>

\* A faulty custom template that reads parsed["sites"]: a payload without
\* the key raises KeyError.
CustomTemplateIndexed(parsed) ==
    LET vendor == deep_get(parsed, VendorPath)
        inv_no == deep_get(parsed, InvNoPath)
        amount == deep_get(parsed, AmountPath)
        due == deep_get(parsed, DuePath)
        sites == Get(parsed, SitesKey, JNull)
        elems == Elements(sites)
    IN  IF ~HasKey(parsed, SitesKey) \/ ~Iterable(sites)
               \/ \E i \in 1..Len(elems) : ~IsDict(elems[i])
        THEN [raised |-> TRUE, df_custom |-> EmptyFrame]
        ELSE [raised |-> FALSE,
              df_custom |->
                  IF elems = <<>> THEN EmptyFrame
                  ELSE Frame(CustomColumns,
                             Tuple([i \in 1..Len(elems) |->
                                 CustomRecord(i, elems[i], vendor, inv_no, amount, due)]))]

\* The custom template of lines 245-263 for a parsed dict.  raised: sites
\* is not iterable (TypeError) or yields an element without .get
\* (AttributeError); the loop stops there and no frame is built.
CustomTemplate(parsed) ==
    LET vendor == deep_get(parsed, VendorPath)
        inv_no == deep_get(parsed, InvNoPath)
        amount == deep_get(parsed, AmountPath)
        due == deep_get(parsed, DuePath)
        sites == Get(parsed, SitesKey, JList(<<>>))
        elems == Elements(sites)
    IN  IF ~Iterable(sites) \/ \E i \in 1..Len(elems) : ~IsDict(elems[i])
        THEN [raised |-> TRUE, df_custom |-> EmptyFrame]
        ELSE [raised |-> FALSE,
              df_custom |->
                  IF elems = <<>> THEN EmptyFrame
                  ELSE Frame(CustomColumns,
                             Tuple([i \in 1..Len(elems) |->
                                 CustomRecord(i, elems[i], vendor, inv_no, amount, due)]))]

\* ------------------------------------------------------------ replies
\* The text of a JSON value, as a model writes it.  bare: the keys of its
\* objects are written without quotes.  layout: "compact" (no whitespace),
\* "spaced" (a space after each comma and colon) or "lines" (a newline
\* after each brace, bracket and comma).
NullText == <<"n", "u", "l", "l">>
TrueText == <<"t", "r", "u", "e">>
FalseText == <<"f", "a", "l", "s", "e">>

ItemSep(layout) ==
    CASE layout = "compact" -> <<",">>
      [] layout = "spaced" -> <<",", " ">>
      [] layout = "lines" -> <<",", NL>>

KeySep(layout) == IF layout = "compact" THEN <<":">> ELSE <<":", " ">>

Pad(layout) == IF layout = "lines" THEN <<NL>> ELSE <<>>

RECURSIVE RenderValue(_, _, _)
RECURSIVE RenderItems(_, _, _, _)

\* The members of container v from index i on, separated.
RenderItems(v, i, bare, layout) ==
    LET key == IF bare THEN v.keys[i] ELSE <<DQ>> \o v.keys[i] \o <<DQ>>
        item == IF IsDict(v)
                THEN key \o KeySep(layout) \o RenderValue(v.items[i], bare, layout)
                ELSE RenderValue(v.items[i], bare, layout)
    IN  IF i = Len(v.items) THEN item
        ELSE item \o ItemSep(layout) \o RenderItems(v, i + 1, bare, layout)

RenderValue(v, bare, layout) ==
    CASE v.tag = "null" -> NullText
      [] v.tag = "bool" -> IF v.b THEN TrueText ELSE FalseText
      [] v.tag = "num" -> DecimalText(v.n)
      [] v.tag = "str" -> <<DQ>> \o v.s \o <<DQ>>
      [] v.tag = "list" ->
            IF v.items = <<>> THEN <<"[", "]">>
            ELSE <<"[">> \o Pad(layout) \o RenderItems(v, 1, bare, layout)
                     \o Pad(layout) \o <<"]">>
      [] v.tag = "dict" ->
            IF v.items = <<>> THEN <<"{", "}">>
            ELSE <<"{">> \o Pad(layout) \o RenderItems(v, 1, bare, layout)
                     \o Pad(layout) \o <<"}">>

\* A text inside a code fence.  "tagged": the fence with its json tag on a
\* line of its own before and after the text.  "plain": an untagged fence
\* with whitespace around it, the closing fence right after the text.
Wrap(fence, t) ==
    CASE fence = "none" -> t
      [] fence = "tagged" -> Fence \o JsonTag \o <<NL>> \o t \o <<NL>> \o Fence
      [] fence = "plain" ->
            <<NL, " ">> \o Fence \o <<NL>> \o t \o Fence \o <<" ", NL>>

\* ------------------------------------------------------------ normalizer inputs
\* The most elements a generated list holds.
MaxLen == 2

KeyA == <<"a">>
KeyB == <<"b", "_", "1">>
TextXY == <<"x", " ", "y">>
TextLikeKey == <<",", "b", ":">>
TextFence == <<BT, BT, BT>>

\* Scalars: a number, null, and strings, among them one that holds the
\* pattern of the key repair and one that holds a fence.
Atoms == {JNum(12), JNull, JStr(TextXY), JStr(TextLikeKey), JStr(TextFence)}

\* The sequences over S of length 0..n.
SeqsUpTo(S, n) == UNION {[1..k -> S] : k \in 0..n}

KeyOrders == {<<>>, <<KeyA>>, <<KeyB>>, <<KeyA, KeyB>>, <<KeyB, KeyA>>}

\* Lists and objects of scalars.
FlatValues ==
    {JList(xs) : xs \in SeqsUpTo(Atoms, MaxLen)}
        \cup UNION {{JDict(ks, vs) : vs \in [1..Len(ks) -> Atoms]} : ks \in KeyOrders}

\* Lists and objects that hold a list or an object.
NestedValues ==
    UNION {{JList(<<c>>), JList(<<JNum(12), c>>), JDict(<<KeyA>>, <<c>>),
            JDict(<<KeyB, KeyA>>, <<c, JStr(TextXY)>>)} : c \in FlatValues}

JsonValues == FlatValues \cup NestedValues

\* A normalizer input is [kind, val, bare, reply].  kind "json": reply is
\* the text of the list or object val, its keys bare or quoted, in some
\* layout and fence.  kind "other": any other reply.
JsonInputs ==
    {[kind |-> "json", val |-> v, bare |-> b,
      reply |-> TextReply(Wrap(f, RenderValue(v, b, l)))] :
        v \in JsonValues, b \in BOOLEAN,
        l \in {"compact", "spaced", "lines"}, f \in {"none", "tagged", "plain"}}

GarbageText ==
    <<"S", "o", "r", "r", "y", ",", " ", "n", "o", " ", "i", "n", "v", "o",
      "i", "c", "e", " ", "f", "o", "u", "n", "d", ".">>
TrailingCommaText == <<"{", DQ, "a", DQ, ":", " ", "1", ",", "}">>
SpacedKeyText == <<"{", "a", " ", ":", " ", "1", "}">>
ScalarText == <<"1", "2">>
QuotedText == <<DQ, "o", "k", DQ>>
UpperTagText ==
    <<BT, BT, BT, "J", "S", "O", "N", NL, "{", DQ, "a", DQ, ":", " ", "1",
      "}", NL, BT, BT, BT>>
FenceInsideText == <<"{", DQ, "a", DQ, ":", NL, BT, BT, BT, NL, "1", "}">>

Other(r) == [kind |-> "other", val |-> JNull, bare |-> FALSE, reply |-> r]

OtherInputs ==
    {Other(NoneReply), Other(TextReply(<<>>)), Other(TextReply(<<" ">>)),
     Other(TextReply(<<NL>>)), Other(TextReply(Fence)),
     Other(TextReply(GarbageText)), Other(TextReply(TrailingCommaText)),
     Other(TextReply(SpacedKeyText)), Other(TextReply(ScalarText)),
     Other(TextReply(QuotedText)), Other(TextReply(NullText)),
     Other(TextReply(TrueText)), Other(TextReply(UpperTagText)),
     Other(TextReply(FenceInsideText))}

NormInputs == JsonInputs \cup OtherInputs

\* ------------------------------------------------------------ the normalizer alone
VARIABLES
    norm_in,    \* the input handed to clean_json_output
    norm_out,   \* what it returned: [val, loads, repaired]
    norm_pc,    \* "off", "ready" or "done"
    uploaded_file,  \* the uploaded PDF's name, NoFile when there is none
    parsed_data,    \* st.session_state["parsed_data"]
    df_summary,     \* st.session_state["df_summary"]
    items_df,       \* st.session_state["items_df"]
    df_custom,      \* st.session_state["df_custom"]
    ui,             \* what the page shows: "empty", "preview", "output", "error"
    raw_output,     \* the input whose reply line 238 read in the latest run, if any
    origin          \* per slot: the input and the document it was written from

norm_vars == <<norm_in, norm_out, norm_pc>>
session_vars ==
    <<uploaded_file, parsed_data, df_summary, items_df, df_custom, ui,
      raw_output, origin>>
vars == <<norm_in, norm_out, norm_pc, uploaded_file, parsed_data, df_summary,
          items_df, df_custom, ui, raw_output, origin>>

\* ------------------------------------------------------------ session inputs
\* The most sites a generated invoice reply lists.
MaxSites == 2

BillingKey ==
    <<"b", "i", "l", "l", "i", "n", "g", "_", "d", "e", "t", "a", "i", "l",
      "s">>
PayableToKey == <<"p", "a", "y", "a", "b", "l", "e", "_", "t", "o">>
InvoiceKey == <<"i", "n", "v", "o", "i", "c", "e">>
InvoiceNumberKey ==
    <<"i", "n", "v", "o", "i", "c", "e", "_", "n", "u", "m", "b", "e", "r">>
InvoiceDateKey ==
    <<"i", "n", "v", "o", "i", "c", "e", "_", "d", "a", "t", "e">>
AmountKey == <<"a", "m", "o", "u", "n", "t">>
PaymentDueKey ==
    <<"p", "a", "y", "m", "e", "n", "t", "_", "d", "u", "e", "_", "b", "y">>
ComputedDueKey ==
    <<"c", "o", "m", "p", "u", "t", "e", "d", "_", "d", "u", "e", "_", "d",
      "a", "t", "e">>
Acme == <<"A", "c", "m", "e", " ", "C", "o", "r", "p">>
Inv123 == <<"I", "N", "V", "-", "1", "2", "3">>
Sep01 == <<"2", "0", "2", "5", "-", "0", "9", "-", "0", "1">>
Sep30 == <<"2", "0", "2", "5", "-", "0", "9", "-", "3", "0">>
Oct01 == <<"2", "0", "2", "5", "-", "1", "0", "-", "0", "1">>
Amount1200 == <<"$", "1", ",", "2", "0", "0", ".", "0", "0">>
Houston == <<"H", "o", "u", "s", "t", "o", "n", " ", "T", "X">>

\* Sites as the prompt asks for them: complete, with an alternative date
\* and no address, and with an empty address and a null alternative date.
Sites ==
    <<JDict(<<AddressKey, DateKey, AlternativeDateKey>>,
            <<JStr(Houston), JStr(Sep01), JStr(NotFound)>>),
      JDict(<<DateKey, AlternativeDateKey>>, <<JStr(Sep30), JStr(Oct01)>>),
      JDict(<<AddressKey, AlternativeDateKey>>, <<JStr(<<>>), JNull>>)>>

\* The sites numbered by c, in order.
SitesOf(c) == Tuple([i \in 1..Len(c) |-> Sites[c[i]]])

\* The reply of the prompt's example A with the sites ss.
FullInvoice(ss) ==
    JDict(<<BillingKey, InvoiceKey, PaymentDueKey, SitesKey, ComputedDueKey>>,
          <<JDict(<<PayableToKey>>, <<JStr(Acme)>>),
            JDict(<<InvoiceNumberKey, InvoiceDateKey, AmountKey>>,
                  <<JStr(Inv123), JStr(Sep01), JStr(Amount1200)>>),
            JStr(Sep30), JList(ss), JStr(Sep30)>>)

\* A reply with fields missing, null and empty.
PoorInvoice(ss) ==
    JDict(<<InvoiceKey, SitesKey, ComputedDueKey>>,
          <<JDict(<<InvoiceNumberKey, AmountKey>>, <<JStr(<<>>), JNull>>),
            JList(ss), JNull>>)

\* A session input is [id, payload, reply]: the reply the API returns, a
\* name <<kind, numbers>> that tells it from the other inputs and, for the
\* kinds "full" and "poor", the object the reply is the text of.
InvoiceInputs ==
    UNION {{[id |-> <<"full", c>>, payload |-> FullInvoice(SitesOf(c)),
             reply |-> TextReply(Wrap("tagged", RenderValue(FullInvoice(SitesOf(c)), FALSE, "lines")))],
            [id |-> <<"poor", c>>, payload |-> PoorInvoice(SitesOf(c)),
             reply |-> TextReply(RenderValue(PoorInvoice(SitesOf(c)), TRUE, "spaced"))]} :
           c \in SeqsUpTo(1..Len(Sites), MaxSites)}

ListReplyText == <<"[", "{", DQ, "a", DQ, ":", " ", "1", "}", "]">>
SitesNumberText ==
    <<"{", DQ, "s", "i", "t", "e", "s", DQ, ":", " ", "5", "}">>
SitesScalarsText ==
    <<"{", DQ, "s", "i", "t", "e", "s", DQ, ":", " ", "[", "1", "]", "}">>
EmptyObjectText == <<"{", "}">>

OtherReply(k, r) == [id |-> <<"other", <<k>>>>, payload |-> JNull, reply |-> r]

OtherReplyTexts ==
    <<NoneReply, TextReply(<<>>), TextReply(GarbageText),
      TextReply(TrailingCommaText), TextReply(ListReplyText),
      TextReply(ScalarText), TextReply(SitesNumberText),
      TextReply(SitesScalarsText), TextReply(EmptyObjectText)>>

OtherReplies ==
    {OtherReply(k, OtherReplyTexts[k]) : k \in 1..Len(OtherReplyTexts)}

SessionInputs == InvoiceInputs \cup OtherReplies

\* The session input named id.
Input(id) == CHOOSE x \in SessionInputs : x.id = id

Docs == {"invoice_a.pdf", "invoice_b.pdf"}
NoFile == "none"

\* ------------------------------------------------------------ the extract flow
\* A session slot: None, or a value.
None == [some |-> FALSE, v |-> JNull]
NoFrame == [some |-> FALSE, v |-> EmptyFrame]
Some(x) == [some |-> TRUE, v |-> x]

\* Lines 241-264 for the parsed reply, without the session: the frames, and
\* the step that raised, if one did ("separate": line 241, "custom": lines
\* 245-263, "": none).
Reshaped(parsed, sep, cus) ==
    [parsed |-> parsed,
     df_summary |-> sep.df_summary,
     items_df |-> sep.items_df,
     df_custom |-> cus.df_custom,
     raised |-> IF sep.raised THEN "separate"
                ELSE IF cus.raised THEN "custom" ELSE ""]

Reshape(parsed) ==
    Reshaped(parsed, separate_summary_and_items(parsed), CustomTemplate(parsed))

\* Lines 238-264 for the reply raw.
Pipeline(raw) == Reshape(clean_json_output(raw).val)

\* Each reply the API can return, with what Pipeline makes of it.
Outcomes == {<<x.id, Pipeline(x.reply)>> : x \in SessionInputs}

Outcome(id) == (CHOOSE p \in Outcomes : p[1] = id)[2]

\* Where a slot's value comes from: the input of the run that wrote it and
\* the document uploaded then.
NoInput == <<"none", <<>>>>
NeverWritten == [written |-> FALSE, id |-> NoInput, doc |-> NoFile]
WrittenFrom(id, d) == [written |-> TRUE, id |-> id, doc |-> d]
NoReply == [got |-> FALSE, id |-> NoInput]

SessionInit ==
    /\ uploaded_file = NoFile
    /\ parsed_data = None
    /\ df_summary = NoFrame
    /\ items_df = NoFrame
    /\ df_custom = NoFrame
    /\ ui = "empty"
    /\ raw_output = NoReply
    /\ origin = [parsed_data |-> NeverWritten, df_summary |-> NeverWritten,
                 items_df |-> NeverWritten, df_custom |-> NeverWritten]

\* The user puts a PDF into the uploader (line 32): the script runs again
\* with the button not pressed, and shows the preview (lines 212-223).
Upload(d) ==
    /\ uploaded_file' = d
    /\ ui' = "preview"
    /\ raw_output' = NoReply
    /\ UNCHANGED <<parsed_data, df_summary, items_df, df_custom, origin>>
    /\ UNCHANGED norm_vars

\* The user clears the uploader: the script runs again and skips line 212.
RemoveFile ==
    /\ uploaded_file # NoFile
    /\ uploaded_file' = NoFile
    /\ ui' = "empty"
    /\ raw_output' = NoReply
    /\ UNCHANGED <<parsed_data, df_summary, items_df, df_custom, origin>>
    /\ UNCHANGED norm_vars

\* "Generate Output" with the API call of line 229 raising: the handler of
\* lines 289-291 shows the error.
ApiFails ==
    /\ uploaded_file # NoFile
    /\ ui' = "error"
    /\ raw_output' = NoReply
    /\ UNCHANGED <<uploaded_file, parsed_data, df_summary, items_df, df_custom, origin>>
    /\ UNCHANGED norm_vars

\* "Generate Output" with the API returning x.reply (lines 225-291).  Each
\* slot is written where the code writes it: parsed_data at line 240, the
\* summary and items at line 242, the custom frame at line 264; a step that
\* raises leaves the later slots as they were and shows the error.  Store
\* is the run for input x with outcome o, the slots' new origin being from.
Store(x, o, from) ==
    /\ raw_output' = [got |-> TRUE, id |-> x.id]
    /\ parsed_data' = Some(o.parsed)
    /\ IF o.raised = "separate"
       THEN /\ UNCHANGED <<df_summary, items_df, df_custom>>
            /\ origin' = [origin EXCEPT !.parsed_data = from]
            /\ ui' = "error"
       ELSE /\ df_summary' = Some(o.df_summary)
            /\ items_df' = Some(o.items_df)
            /\ IF o.raised = "custom"
               THEN /\ UNCHANGED df_custom
                    /\ origin' = [origin EXCEPT !.parsed_data = from,
                                                !.df_summary = from,
                                                !.items_df = from]
                    /\ ui' = "error"
               ELSE /\ df_custom' = Some(o.df_custom)
                    /\ origin' = [parsed_data |-> from, df_summary |-> from,
                                  items_df |-> from, df_custom |-> from]
                    /\ ui' = "output"
    /\ UNCHANGED uploaded_file
    /\ UNCHANGED norm_vars

Extract(x) ==
    /\ uploaded_file # NoFile
    /\ Store(x, Outcome(x.id), WrittenFrom(x.id, uploaded_file))

Init ==
    /\ SessionInit
    /\ norm_in = Other(NoneReply)
    /\ norm_out = [val |-> JNull, loads |-> 0, repaired |-> FALSE]
    /\ norm_pc = "off"

Next ==
    \/ \E d \in Docs : Upload(d)
    \/ RemoveFile
    \/ ApiFails
    \/ \E x \in SessionInputs : Extract(x)

Spec == Init /\ [][Next]_vars

\* The normalizer applied to each input of NormInputs.
NormInit ==
    /\ SessionInit
    /\ norm_in \in NormInputs
    /\ norm_out = [val |-> JNull, loads |-> 0, repaired |-> FALSE]
    /\ norm_pc = "ready"

Normalize ==
    /\ norm_pc = "ready"
    /\ norm_out' = clean_json_output(norm_in.reply)
    /\ norm_pc' = "done"
    /\ UNCHANGED norm_in
    /\ UNCHANGED session_vars

NormNext == Normalize

NormSpec == NormInit /\ [][NormNext]_vars

\* ------------------------------------------------------------ the normalizer's claims
\* All of these are checked under NormSpec, in the states where the
\* normalizer has returned.
Returned == norm_pc = "done"

\* The reply handed to the normalizer is empty or absent.
EmptyReply == norm_in.reply.none \/ norm_in.reply.text = <<>>

\* The error marker: a mapping with the field error, or error and raw.
IsErrorMarker(v) ==
    IsDict(v) /\ (v.keys = <<ErrorKey>> \/ v.keys = <<ErrorKey, RawKey>>)

\* C1: for every text reply the normalizer returns a mapping, a list of
\* mappings or the error marker {error, raw}, never a bare scalar.
C1_ThreeShapes ==
    Returned /\ ~norm_in.reply.none =>
        \/ IsDict(norm_out.val)
        \/ /\ IsList(norm_out.val)
           /\ \A i \in 1..Len(norm_out.val.items) : IsDict(norm_out.val.items[i])

DataKey == <<"d", "a", "t", "a">>

\* C2: a reply that parses as a list comes back as the mapping {data: list},
\* one that parses as a mapping comes back as it is, and no bare list is
\* ever returned.
C2_ListIsWrapped ==
    /\ Returned /\ norm_in.kind = "json" /\ ~norm_in.bare =>
           norm_out.val = IF IsList(norm_in.val)
                          THEN JDict(<<DataKey>>, <<norm_in.val>>)
                          ELSE norm_in.val
    /\ Returned => ~IsList(norm_out.val)

EmptyResponse ==
    <<"E", "m", "p", "t", "y", " ", "r", "e", "s", "p", "o", "n", "s", "e">>

\* C3 as stated: for an empty or absent reply the normalizer returns a
\* mapping whose error field is "Empty response", and parses nothing.
C3_EmptyResponse ==
    Returned /\ EmptyReply =>
        /\ IsDict(norm_out.val)
        /\ HasKey(norm_out.val, ErrorKey)
        /\ DictGet(norm_out.val, ErrorKey) = JStr(EmptyResponse)
        /\ norm_out.loads = 0

\* C3 amended: for an empty or absent reply the normalizer returns the
\* mapping {error: "no output"}, with no raw field, and parses nothing.
C3_NoOutput ==
    Returned /\ EmptyReply =>
        /\ norm_out.val = JDict(<<ErrorKey>>, <<JStr(NoOutput)>>)
        /\ norm_out.loads = 0
        /\ ~norm_out.repaired

\* C3's case: the empty text has been normalized.
C3_Witness ==
    /\ Returned
    /\ norm_in.reply = TextReply(<<>>)
    /\ DictGet(norm_out.val, ErrorKey) = JStr(NoOutput)

\* The reply is the text of the object norm_in.val with its keys bare, and
\* the object has a key.
BareObject ==
    norm_in.kind = "json" /\ norm_in.bare /\ IsDict(norm_in.val)
        /\ norm_in.val.keys # <<>>

\* Whether a string of the value v (a key or a string value, at any depth)
\* holds a match of the repair pattern.
RECURSIVE HoldsRepairPattern(_)
HoldsRepairPattern(v) ==
    \/ v.tag = "str" /\ QuoteBareKeys(v.s, 1) # v.s
    \/ \E i \in 1..Len(v.keys) : QuoteBareKeys(v.keys[i], 1) # v.keys[i]
    \/ \E i \in 1..Len(v.items) : HoldsRepairPattern(v.items[i])

\* C4 as stated: every object written with bare keys comes back as the
\* mapping its quoted text denotes; the repair runs only after the strict
\* parse has failed, once.
C4_BareKeysRepaired ==
    Returned /\ BareObject =>
        /\ norm_out.val = norm_in.val
        /\ norm_out.repaired /\ norm_out.loads = 2
        /\ ~JsonLoads(CleanText(norm_in.reply.text)).ok

\* C4 amended: an object written with bare keys, none of whose strings
\* holds a match of the repair pattern, comes back as the mapping its quoted
\* text denotes; the repair runs only after the strict parse has failed,
\* once.
C4_BareKeysRepairedUnlessInString ==
    Returned /\ BareObject /\ ~HoldsRepairPattern(norm_in.val) =>
        /\ norm_out.val = norm_in.val
        /\ norm_out.repaired /\ norm_out.loads = 2
        /\ ~JsonLoads(CleanText(norm_in.reply.text)).ok

\* C4's case: {b_1: {a: 12}, a: "x y"}, a key after a brace, one after a
\* nested brace and one after a comma, has been repaired.
C4_Witness ==
    /\ Returned /\ BareObject
    /\ norm_in.val = JDict(<<KeyB, KeyA>>, <<JDict(<<KeyA>>, <<JNum(12)>>), JStr(TextXY)>>)
    /\ norm_out.repaired
    /\ norm_out.val = norm_in.val

\* C5: a valid JSON object or list, bare or inside code fences, with any
\* whitespace, comes back as the value it denotes after one strict parse;
\* the key repair does not run.
C5_ValidJsonPreserved ==
    Returned /\ norm_in.kind = "json" /\ ~norm_in.bare =>
        norm_out = [val |-> norm_in.val, loads |-> 1, repaired |-> FALSE]

\* C5's case: an object inside tagged code fences, one of whose strings
\* looks like a bare key, has been normalized.
C5_Witness ==
    /\ Returned /\ norm_in.kind = "json" /\ ~norm_in.bare
    /\ HasAt(norm_in.reply.text, 1, Fence \o JsonTag \o <<NL>>)
    /\ norm_in.val = JDict(<<KeyA, KeyB>>, <<JStr(TextLikeKey), JNum(12)>>)
    /\ norm_out.val = norm_in.val

\* ------------------------------------------------------------ the session's claims
\* All of these are checked under Spec.
Slots == {"parsed_data", "df_summary", "items_df", "df_custom"}

\* The latest run read a reply, and which.
GotReply == raw_output.got
LatestReply == Input(raw_output.id).reply

\* The names of the inputs whose reply is empty or absent, and of those
\* whose reply no parse accepts, strict or repaired.
EmptyIds == {x.id : x \in {y \in SessionInputs : y.reply.none \/ y.reply.text = <<>>}}
UnparsableIds ==
    {x.id : x \in
        {y \in SessionInputs :
            /\ ~y.reply.none /\ y.reply.text # <<>>
            /\ ~JsonLoads(CleanText(y.reply.text)).ok
            /\ ~JsonLoads(QuoteBareKeys(CleanText(y.reply.text), 1)).ok}}

\* C6 as stated: on an empty or unparsable reply the extract action does not
\* raise, and the table it makes of the error marker has exactly one row.
C6_OneErrorRow ==
    GotReply /\ raw_output.id \in EmptyIds \cup UnparsableIds =>
        /\ ui = "output"
        /\ df_summary.some /\ Len(df_summary.v.rows) = 1

\* The summary frame of a flat mapping d: one row <<field name, value>> per
\* field, in order.
FieldRows(d) ==
    Frame(<<FieldNameColumn, ValueColumn>>,
          [i \in 1..Len(d.keys) |-> <<JStr(d.keys[i]), d.items[i]>>])

\* C6 amended: on an empty or unparsable reply the extract action does not
\* raise; the error marker is stored as the parsed payload, the summary
\* table has one row per field of the marker (error alone for an empty
\* reply, error and raw for an unparsable one), and the items table and the
\* custom table are empty.
C6_ErrorMarkerRows ==
    GotReply /\ raw_output.id \in EmptyIds \cup UnparsableIds =>
        /\ ui = "output"
        /\ parsed_data.some /\ IsErrorMarker(parsed_data.v)
        /\ Len(parsed_data.v.keys) = IF raw_output.id \in EmptyIds THEN 1 ELSE 2
        /\ df_summary = Some(FieldRows(parsed_data.v))
        /\ items_df = Some(EmptyFrame)
        /\ df_custom = Some(EmptyFrame)

\* C6's case: an extraction has read a reply that is no JSON, and shows its
\* two-row summary.
C6_Witness ==
    /\ GotReply
    /\ LatestReply = TextReply(GarbageText)
    /\ ui = "output"
    /\ Len(df_summary.v.rows) = 2

\* C7: the four slots always come from the same reply: no state holds
\* parsed_data from one run and a table from another, or from none.
C7_SlotsFromSameReply ==
    \A s \in Slots : origin[s] = origin.parsed_data

\* C8: no state has a document uploaded while a slot holds what was
\* extracted from another document.
C8_ClearedOnNewUpload ==
    \A s \in Slots :
        uploaded_file # NoFile /\ origin[s].written => origin[s].doc = uploaded_file

\* A cell that holds a value: not null, not missing, not the empty string.
Filled(c) == c \notin {JNull, JNaN, JStr(<<>>)}

AllFilled(slot) ==
    slot.some =>
        \A i \in 1..Len(slot.v.rows) :
            \A c \in 1..Len(slot.v.rows[i]) : Filled(slot.v.rows[i][c])

\* C9: every cell of the summary table and of the custom table holds a
\* non-empty value or "Not Found", never null or the empty string.
C9_CellsFilled == AllFilled(df_summary) /\ AllFilled(df_custom)

\* The cell of row i of frame f in column col.
Cell(f, i, col) ==
    f.rows[i][CHOOSE c \in 1..Len(f.columns) : f.columns[c] = col]

\* The latest run parsed a payload whose sites field is a list of mappings.
SitesListed ==
    /\ GotReply
    /\ parsed_data.some /\ IsDict(parsed_data.v)
    /\ HasKey(parsed_data.v, SitesKey)
    /\ IsList(DictGet(parsed_data.v, SitesKey))
    /\ \A i \in 1..Len(DictGet(parsed_data.v, SitesKey).items) :
           IsDict(DictGet(parsed_data.v, SitesKey).items[i])

\* C10: for a payload whose sites field lists N mappings the custom table
\* has N rows in site order; row i holds the serial number i and the i-th
\* site's address ("Not Found" for a site without the field), and all rows
\* agree in Vendor Name, Inv #, Memo #, Due Date and Invoice Total; for
\* N = 0 the table is empty.
C10_OneRowPerSite ==
    SitesListed =>
        LET sites == DictGet(parsed_data.v, SitesKey).items
            t == df_custom.v
        IN  /\ ui = "output"
            /\ origin.df_custom = origin.parsed_data
            /\ df_custom.some
            /\ Len(t.rows) = Len(sites)
            /\ sites = <<>> => t = EmptyFrame
            /\ sites # <<>> => t.columns = CustomColumns
            /\ \A i \in 1..Len(sites) :
                   /\ Cell(t, i, SNoColumn) = JNum(i)
                   /\ Cell(t, i, AddressColumn) = Get(sites[i], AddressKey, JStr(NotFound))
                   /\ \A col \in {VendorNameColumn, InvNoColumn, MemoColumn,
                                  DueDateColumn, InvoiceTotalColumn} :
                          Cell(t, i, col) = Cell(t, 1, col)

\* C10's case: a payload with two sites, the second without an address, has
\* been laid out in two rows.
C10_Witness ==
    /\ SitesListed
    /\ raw_output.id = <<"full", <<1, 2>>>>
    /\ Len(df_custom.v.rows) = 2
    /\ Cell(df_custom.v, 2, SNoColumn) = JNum(2)
    /\ Cell(df_custom.v, 1, AddressColumn) = JStr(Houston)
    /\ Cell(df_custom.v, 2, AddressColumn) = JStr(NotFound)
    /\ Cell(df_custom.v, 2, VendorNameColumn) = JStr(Acme)

====
